---- MODULE Spec2Model ----
(***************************************************************************)
(* BerryMed pulse oximeter reader: the marker-delimited framer `chunks`,   *)
(* the bit-layout schema PARSING_SCHEMA and the read loop of               *)
(* BluetoothPulseSensorReader.start_reading                                *)
(* (src/berrymed_pulse_oximeter/berrymed_pulse_oximeter.py).               *)
(***************************************************************************)
EXTENDS Integers, Sequences, FiniteSets, TLC

VARIABLES
    pc,                 \* position of start_reading (or "chunks" when the framer runs alone)
    keep_reading,       \* self._keep_reading
    device,             \* self._device: "None" or "BerryMed"
    connected,          \* whether the device is connected
    disconnects,        \* number of self._device.disconnect() calls
    reads,              \* number of pulse_characteristic.read_value() calls
    raw_data,           \* the delivery being processed
    iterable,           \* chunks: the iterable the generator was created on
    condition,          \* chunks: the items for which the condition callable is true
    it1,                \* chunks: items consumed from it1
    it2,                \* chunks: items consumed from it2
    sequence_started,   \* chunks: local sequence_started
    gen,                \* chunks: generator state, "none", "suspended" or "returned"
    yielded,            \* chunks: the groups yielded so far by this generator
    resumes,            \* chunks: number of next() calls on this generator
    calls,              \* samples passed to self._handle_data_callback, in order
    delivered,          \* samples for which the callback returned normally
    logged,             \* number of logging.exception calls
    mark,               \* Len(calls) when the current delivery was read
    clock,              \* datetime.now() as a logical clock
    fields              \* the field values the delivery's frame was built from, or "none"

vars == <<pc, keep_reading, device, connected, disconnects, reads, raw_data,
          iterable, condition, it1, it2, sequence_started, gen, yielded,
          resumes, calls, delivered, logged, mark, clock, fields>>

genvars == <<iterable, condition, it1, it2, sequence_started, gen, yielded, resumes>>

Byte == 0..255

(***************************************************************************)
(* Bounds                                                                  *)
(***************************************************************************)
MaxLen == 5         \* longest iterable given to chunks when it runs alone
MaxDelivery == 6    \* longest delivery over the framing alphabet
MaxReads == 2       \* read_value() calls in one run of start_reading

Min(a, b) == IF a < b THEN a ELSE b

RECURSIVE Pow2(_)
Pow2(n) == IF n = 0 THEN 1 ELSE 2 * Pow2(n - 1)

RECURSIVE BitAnd(_, _)
BitAnd(a, b) ==
    IF a = 0 \/ b = 0 THEN 0
    ELSE (IF a % 2 = 1 /\ b % 2 = 1 THEN 1 ELSE 0) + 2 * BitAnd(a \div 2, b \div 2)

RECURSIVE BitOr(_, _)
BitOr(a, b) ==
    IF a = 0 THEN b
    ELSE IF b = 0 THEN a
    ELSE (IF a % 2 = 1 \/ b % 2 = 1 THEN 1 ELSE 0) + 2 * BitOr(a \div 2, b \div 2)

ShiftLeft(a, n) == a * Pow2(n)

RECURSIVE Concat(_)
Concat(ss) == IF ss = <<>> THEN <<>> ELSE Head(ss) \o Concat(Tail(ss))

SeqsUpTo(S, n) == UNION {[1..k -> S] : k \in 0..n}

(***************************************************************************)
(* PARSING_SCHEMA: per byte position, the fields of the BitStruct in       *)
(* declaration order (most significant bit first).                         *)
(***************************************************************************)
Field(n, k, w) == [name |-> n, kind |-> k, width |-> w]

PARSING_SCHEMA ==
    [i \in 0..4 |->
        CASE i = 0 -> << Field("sync_bit", "Flag", 1), Field("pulse_beep", "Flag", 1),
                         Field("probe_unplugged", "Flag", 1), Field("has_signal", "Flag", 1),
                         Field("signal_strength", "BitsInteger", 4) >>
          [] i = 1 -> << Field("sync_bit", "Flag", 1), Field("pleth", "BitsInteger", 7) >>
          [] i = 2 -> << Field("sync_bit", "Flag", 1), Field("pr_last_bit", "Bit", 1),
                         Field("pulse_research", "Flag", 1), Field("no_finger", "Flag", 1),
                         Field("bargraph", "BitsInteger", 4) >>
          [] i = 3 -> << Field("sync_bit", "Flag", 1), Field("pr_bits", "BitsInteger", 7) >>
          [] i = 4 -> << Field("sync_bit", "Flag", 1), Field("spo2", "BitsInteger", 7) >> ]

SchemaLen == Cardinality(DOMAIN PARSING_SCHEMA)

\* x.to_bytes(1, 'big'): the one-byte string of x; OverflowError outside 0..255
ToBytes(x) == IF x \in Byte THEN <<x>> ELSE "OverflowError"

RECURSIVE WidthBefore(_, _)
WidthBefore(layout, k) ==
    IF k = 1 THEN 0 ELSE WidthBefore(layout, k - 1) + layout[k - 1].width

\* as FieldValue, with the fields laid out from the least significant bit
FieldValueLsbFirst(layout, k, b) ==
    LET raw == (b \div Pow2(WidthBefore(layout, k))) % Pow2(layout[k].width)
    IN  IF layout[k].kind = "Flag" THEN raw # 0 ELSE raw

\* The value of the k-th field of a BitStruct parsed from one byte.
FieldValue(layout, k, b) ==
    LET shift == 8 - WidthBefore(layout, k) - layout[k].width
        raw == (b \div Pow2(shift)) % Pow2(layout[k].width)
    IN  IF layout[k].kind = "Flag" THEN raw # 0 ELSE raw

\* BitStruct.parse(data): a container mapping each field name to its value.
Parse(layout, data) ==
    [n \in {layout[k].name : k \in DOMAIN layout} |->
        LET k == CHOOSE j \in DOMAIN layout : layout[j].name = n
        IN  FieldValue(layout, k, data[1])]

\* as starting_bit_lookup_condition, but the `except ConstructError` branch is
\* always taken
starting_bit_lookup_raises(x) == FALSE

starting_bit_lookup_condition(x) == Parse(PARSING_SCHEMA[0], ToBytes(x)).sync_bit

(***************************************************************************)
(* chunks(iterable, condition): one resumption of the generator is one     *)
(* pass of its outer `while True` loop.                                    *)
(***************************************************************************)
\* as InitialSplitIndex, forgetting the marker it2 has already consumed
InitialSplitIndexZero(started) == 0

InitialSplitIndex(started) == IF started THEN 1 ELSE 0

\* as Scan, but a marker right after the group's first item does not end the group
RECURSIVE ScanSkipAdjacent(_, _, _, _, _)
ScanSkipAdjacent(s, cond, p2, split_index, started) ==
    IF p2 >= Len(s)
    THEN [it2 |-> p2, split_index |-> split_index,
          sequence_started |-> started, sequence_ended |-> FALSE]
    ELSE LET item == s[p2 + 1]
             condition_result == item \in cond
         IN  IF condition_result /\ split_index = 0
             THEN ScanSkipAdjacent(s, cond, p2 + 1, split_index + 1, TRUE)
             ELSE IF condition_result /\ split_index > 1
             THEN [it2 |-> p2 + 1, split_index |-> split_index,
                   sequence_started |-> started, sequence_ended |-> TRUE]
             ELSE ScanSkipAdjacent(s, cond, p2 + 1, split_index + 1, started)

\* as Scan, but the marker that ends the group is counted into the group
RECURSIVE ScanCountsMarker(_, _, _, _, _)
ScanCountsMarker(s, cond, p2, split_index, started) ==
    IF p2 >= Len(s)
    THEN [it2 |-> p2, split_index |-> split_index,
          sequence_started |-> started, sequence_ended |-> FALSE]
    ELSE LET item == s[p2 + 1]
             condition_result == item \in cond
         IN  IF condition_result /\ split_index = 0
             THEN ScanCountsMarker(s, cond, p2 + 1, split_index + 1, TRUE)
             ELSE IF condition_result /\ split_index # 0
             THEN [it2 |-> p2 + 1, split_index |-> split_index + 1,
                   sequence_started |-> started, sequence_ended |-> TRUE]
             ELSE ScanCountsMarker(s, cond, p2 + 1, split_index + 1, started)

\* The inner `while not sequence_ended` loop, from it2 position p2.
RECURSIVE Scan(_, _, _, _, _)
Scan(s, cond, p2, split_index, started) ==
    IF p2 >= Len(s)
    THEN [it2 |-> p2, split_index |-> split_index,
          sequence_started |-> started, sequence_ended |-> FALSE]
    ELSE LET item == s[p2 + 1]
             condition_result == item \in cond
         IN  IF condition_result /\ split_index = 0
             THEN Scan(s, cond, p2 + 1, split_index + 1, TRUE)
             ELSE IF condition_result /\ split_index # 0
             THEN [it2 |-> p2 + 1, split_index |-> split_index,
                   sequence_started |-> started, sequence_ended |-> TRUE]
             ELSE Scan(s, cond, p2 + 1, split_index + 1, started)

\* itertools.islice(it1, n) from it1 position p1: the items taken.
Islice(s, p1, n) == SubSeq(s, p1 + 1, Min(p1 + n, Len(s)))

\* as ChunkEnds, but an empty chunk is yielded like any other
ChunkNeverEnds(chunk) == FALSE

\* `if not chunk: return`
ChunkEnds(chunk) == chunk = <<>>

\* One pass of the outer loop: the scan, the chunk taken from it1, and
\* whether the generator returns.
Resume(s, cond, p1, p2, started) ==
    LET r == Scan(s, cond, p2, InitialSplitIndex(started), started)
        chunk == Islice(s, p1, r.split_index)
    IN  [it1 |-> p1 + Len(chunk),
         it2 |-> r.it2,
         sequence_started |->
             IF r.split_index # 0 /\ r.sequence_ended THEN TRUE ELSE r.sequence_started,
         chunk |-> chunk,
         returned |-> ChunkEnds(chunk)]

\* as NewGenerator, but the trailing incomplete group of the previous call is
\* put in front of the new iterable
NewGeneratorJoined(s, cond) ==
    /\ iterable' = (IF yielded # <<>> /\ Len(yielded[Len(yielded)]) < 5
                    THEN yielded[Len(yielded)] ELSE <<>>) \o s
    /\ condition' = cond
    /\ it1' = 0
    /\ it2' = 0
    /\ sequence_started' = FALSE
    /\ gen' = "suspended"
    /\ yielded' = <<>>
    /\ resumes' = 0

\* chunks(...) called: a fresh generator, nothing run yet.
NewGenerator(s, cond) ==
    /\ iterable' = s
    /\ condition' = cond
    /\ it1' = 0
    /\ it2' = 0
    /\ sequence_started' = FALSE
    /\ gen' = "suspended"
    /\ yielded' = <<>>
    /\ resumes' = 0

\* next() on the generator: r is the outcome of the pass.
Advance(r) ==
    /\ it1' = r.it1
    /\ it2' = r.it2
    /\ sequence_started' = r.sequence_started
    /\ gen' = IF r.returned THEN "returned" ELSE "suspended"
    /\ yielded' = IF r.returned THEN yielded ELSE Append(yielded, r.chunk)
    /\ resumes' = resumes + 1
    /\ UNCHANGED <<iterable, condition>>

(***************************************************************************)
(* The framer alone: any short sequence over a small alphabet, and the     *)
(* docstring's examples, under any marker predicate over that alphabet.    *)
(***************************************************************************)
Alphabet == {1, 2, 3}

DocExamples == { <<2, 1, 3, 2, 1, 3, 2, 1, 3>>, <<3, 2, 1, 3, 2>>, <<3, 2>>, <<2, 1>> }

readervars == <<pc, keep_reading, device, connected, disconnects, reads, raw_data,
                calls, delivered, logged, mark, clock, fields>>

InitChunks ==
    /\ pc = "chunks"
    /\ keep_reading = TRUE
    /\ device = "None"
    /\ connected = FALSE
    /\ disconnects = 0
    /\ reads = 0
    /\ raw_data = <<>>
    /\ calls = <<>>
    /\ delivered = <<>>
    /\ logged = 0
    /\ mark = 0
    /\ clock = 0
    /\ fields = "none"
    /\ iterable \in SeqsUpTo(Alphabet, MaxLen) \cup DocExamples
    /\ condition \in SUBSET Alphabet
    /\ it1 = 0
    /\ it2 = 0
    /\ sequence_started = FALSE
    /\ gen = "suspended"
    /\ yielded = <<>>
    /\ resumes = 0

\* next(g) yields a group
ChunksYield ==
    /\ pc = "chunks"
    /\ gen = "suspended"
    /\ LET r == Resume(iterable, condition, it1, it2, sequence_started)
       IN  /\ ~r.returned
           /\ Advance(r)
    /\ UNCHANGED readervars

\* next(g) raises StopIteration: the generator has returned
ChunksReturn ==
    /\ pc = "chunks"
    /\ gen = "suspended"
    /\ LET r == Resume(iterable, condition, it1, it2, sequence_started)
       IN  /\ r.returned
           /\ Advance(r)
    /\ UNCHANGED readervars

NextChunks == ChunksYield \/ ChunksReturn

SpecChunks == InitChunks /\ [][NextChunks]_vars

\* The consumer keeps calling next() until the generator has returned.
SpecChunksFair == InitChunks /\ [][NextChunks]_vars /\ WF_vars(NextChunks)

(***************************************************************************)
(* The decoder: the body of the `for packet in chunks(...)` loop.          *)
(***************************************************************************)
\* packet[i] with Python's 0-based index
At(packet, i) == packet[i + 1]

\* as LengthOk, but a packet whose first byte lacks the sync bit is discarded too
LengthAndSync(packet) ==
    Len(packet) = SchemaLen /\ starting_bit_lookup_condition(At(packet, 0))

\* as LengthOk, but only a packet that is too short is discarded
LengthAtLeast(packet) == Len(packet) >= SchemaLen

\* `len(packet) != len(PARSING_SCHEMA)` is false: the packet is decoded
LengthOk(packet) == Len(packet) = SchemaLen

\* as PulseRate, without the shift of the carry bit
PulseRateNoShift(packet) == BitOr(At(packet, 3), BitAnd(At(packet, 2), 64))

\* packet[3] | ((packet[2] & 0x40) << 1)
PulseRate(packet) == BitOr(At(packet, 3), ShiftLeft(BitAnd(At(packet, 2), 64), 1))

\* The fields of the HeartRateData namedtuple
HeartRateData ==
    {"signal_strength", "has_signal", "pleth", "bargraph", "no_finger",
     "pulse_rate", "spo2", "timestamp"}

\* as Decode, also carrying the three flags the schema parses besides
DecodeWithFlags(packet, now) ==
    LET byte_1_data_container == Parse(PARSING_SCHEMA[0], ToBytes(At(packet, 0)))
        byte_3_data_container == Parse(PARSING_SCHEMA[2], ToBytes(At(packet, 2)))
    IN  [signal_strength |-> byte_1_data_container.signal_strength,
         has_signal |-> byte_1_data_container.has_signal,
         probe_unplugged |-> byte_1_data_container.probe_unplugged,
         pulse_beep |-> byte_1_data_container.pulse_beep,
         bargraph |-> byte_3_data_container.bargraph,
         no_finger |-> byte_3_data_container.no_finger,
         pulse_research |-> byte_3_data_container.pulse_research,
         spo2 |-> At(packet, 4),
         pleth |-> At(packet, 1),
         pulse_rate |-> PulseRate(packet),
         timestamp |-> now]

\* HeartRateData(**packet_dict) built in the try block, stamped with `now`
Decode(packet, now) ==
    LET byte_1_data_container == Parse(PARSING_SCHEMA[0], ToBytes(At(packet, 0)))
        byte_3_data_container == Parse(PARSING_SCHEMA[2], ToBytes(At(packet, 2)))
    IN  [signal_strength |-> byte_1_data_container.signal_strength,
         has_signal |-> byte_1_data_container.has_signal,
         bargraph |-> byte_3_data_container.bargraph,
         no_finger |-> byte_3_data_container.no_finger,
         spo2 |-> At(packet, 4),
         pleth |-> At(packet, 1),
         pulse_rate |-> PulseRate(packet),
         timestamp |-> now]

\* The try block raises before the callback is called: to_bytes is the only
\* step that can, and only for a value outside 0..255.
DecodeRaises(packet) ==
    \/ ToBytes(At(packet, 0)) = "OverflowError"
    \/ ToBytes(At(packet, 2)) = "OverflowError"

(***************************************************************************)
(* Deliveries read_value() may return: every sequence up to MaxDelivery    *)
(* over one non-marker and one marker byte, and deliveries of two frames.  *)
(* Frames built from chosen field values are read under SpecDecode.        *)
(***************************************************************************)
LoByte == 69
HiByte == 156

\* The byte a layout packs from field values v (Flags as 0 or 1).
RECURSIVE PackFrom(_, _, _)
PackFrom(layout, v, k) ==
    IF k > Len(layout) THEN 0
    ELSE v[layout[k].name] * Pow2(8 - WidthBefore(layout, k) - layout[k].width)
            + PackFrom(layout, v, k + 1)

Pack(layout, v) == PackFrom(layout, v, 1)

\* The 5-byte frame of field values f, one record per byte position.
BuildFrame(f) == [i \in 1..5 |-> Pack(PARSING_SCHEMA[i - 1], f[i])]

Byte0Choices ==
    { [sync_bit |-> s, pulse_beep |-> x[1], probe_unplugged |-> x[2],
       has_signal |-> x[3], signal_strength |-> x[4]] :
        s \in {0, 1}, x \in { <<0, 0, 0, 0>>, <<1, 0, 1, 9>>, <<0, 1, 0, 15>> } }

Byte1Choices == { [sync_bit |-> s, pleth |-> p] : s \in {0, 1}, p \in {0, 127} }

Byte2Choices ==
    { [sync_bit |-> s, pr_last_bit |-> x[1], pulse_research |-> x[2],
       no_finger |-> x[3], bargraph |-> x[4]] :
        s \in {0, 1},
        x \in { <<0, 0, 0, 0>>, <<1, 0, 1, 15>>, <<0, 1, 0, 6>>, <<1, 1, 0, 0>> } }

Byte3Choices == { [sync_bit |-> s, pr_bits |-> v] : s \in {0, 1}, v \in {0, 1, 5, 127} }

Byte4Choices == { [sync_bit |-> s, spo2 |-> o] : s \in {0, 1}, o \in {0, 98, 127} }

\* Chosen field values, one record per byte position; at most one of the
\* bytes after the first has its sync bit set.
FieldChoices ==
    { f \in Byte0Choices \X Byte1Choices \X Byte2Choices \X Byte3Choices \X Byte4Choices :
        Cardinality({i \in 2..5 : f[i].sync_bit = 1}) <= 1 }

\* A frame alone, after a stray byte, or before the first byte of the next frame.
FrameDeliveries(f) ==
    { pre \o BuildFrame(f) \o post : pre \in { <<>>, <<LoByte>> }, post \in { <<>>, <<HiByte>> } }

FramingDeliveries == SeqsUpTo({LoByte, HiByte}, MaxDelivery)

\* Two frames in one delivery, back to back or with a stray byte between them.
PairDeliveries ==
    { f \o j \o <<HiByte, LoByte, LoByte, LoByte, LoByte>> :
        f \in { <<HiByte, LoByte, LoByte, LoByte, LoByte>>,
                <<LoByte, LoByte, LoByte, LoByte, LoByte>> },
        j \in { <<>>, <<LoByte>> } }

\* Single frames at the ends of the field ranges, and one with a sync bit set
\* in its second byte.
EdgeDeliveries ==
    { <<0, 0, 0, 0, 0>>, <<255, 127, 127, 127, 127>>, <<255, 255, 127, 127, 127>> }

Deliveries == FramingDeliveries \cup PairDeliveries \cup EdgeDeliveries

\* The condition start_reading passes to chunks, as the set of bytes it accepts.
SyncCondition == {b \in Byte : starting_bit_lookup_condition(b)}

(***************************************************************************)
(* BluetoothPulseSensorReader                                              *)
(***************************************************************************)
NoGenerator ==
    /\ iterable = <<>>
    /\ condition = {}
    /\ it1 = 0
    /\ it2 = 0
    /\ sequence_started = FALSE
    /\ gen = "none"
    /\ yielded = <<>>
    /\ resumes = 0

\* __init__: the state when start_reading is entered
Init ==
    /\ pc = "start"
    /\ keep_reading = TRUE
    /\ device = "None"
    /\ connected = FALSE
    /\ disconnects = 0
    /\ reads = 0
    /\ raw_data = <<>>
    /\ calls = <<>>
    /\ delivered = <<>>
    /\ logged = 0
    /\ mark = 0
    /\ clock = 0
    /\ fields = "none"
    /\ NoGenerator

\* _signal_handler: SIGINT arrives while the process runs
SignalHandler ==
    /\ pc # "done"
    /\ keep_reading' = FALSE
    /\ UNCHANGED <<pc, device, connected, disconnects, reads, raw_data,
                   calls, delivered, logged, mark, clock, fields>>
    /\ UNCHANGED genvars

\* clear_cached_data and _connect: the scan finds the device or not, and
\* connect() succeeds or raises
Connect ==
    /\ pc = "start"
    /\ \E outcome \in {"connected", "connect_failed", "not_found"} :
          /\ device' = IF outcome = "not_found" THEN "None" ELSE "BerryMed"
          /\ connected' = (outcome = "connected")
          /\ pc' = IF outcome = "connected" THEN "discover" ELSE "finally"
    /\ UNCHANGED <<keep_reading, disconnects, reads, raw_data,
                   calls, delivered, logged, mark, clock, fields>>
    /\ UNCHANGED genvars

\* _find_pulse_data_characteristic and start_notify: found, or RuntimeError
FindCharacteristic ==
    /\ pc = "discover"
    /\ \E found \in BOOLEAN : pc' = IF found THEN "loop" ELSE "finally"
    /\ UNCHANGED <<keep_reading, device, connected, disconnects, reads, raw_data,
                   calls, delivered, logged, mark, clock, fields>>
    /\ UNCHANGED genvars

\* `while self._keep_reading`, read_value() returns a non-empty delivery and
\* chunks(raw_data, starting_bit_lookup_condition) is created
ReadValue ==
    /\ pc = "loop"
    /\ keep_reading
    /\ reads < MaxReads
    /\ \E d \in Deliveries \ {<<>>} :
          /\ raw_data' = d
          /\ NewGenerator(d, SyncCondition)
    /\ reads' = reads + 1
    /\ mark' = Len(calls)
    /\ pc' = "for"
    /\ UNCHANGED <<keep_reading, device, connected, disconnects,
                   calls, delivered, logged, clock, fields>>

\* as ReadEmpty, but after an empty delivery the next read follows without the
\* loop test
ReadEmptyUnchecked ==
    /\ pc = "loop"
    /\ reads < MaxReads
    /\ raw_data' = <<>>
    /\ reads' = reads + 1
    /\ mark' = Len(calls)
    /\ pc' = "loop"
    /\ UNCHANGED <<keep_reading, device, connected, disconnects,
                   calls, delivered, logged, clock, fields>>
    /\ UNCHANGED genvars

\* read_value() returns nothing: `continue`, back to the loop test
ReadEmpty ==
    /\ pc = "loop"
    /\ keep_reading
    /\ reads < MaxReads
    /\ raw_data' = <<>>
    /\ reads' = reads + 1
    /\ mark' = Len(calls)
    /\ pc' = "loop"
    /\ UNCHANGED <<keep_reading, device, connected, disconnects,
                   calls, delivered, logged, clock, fields>>
    /\ UNCHANGED genvars

\* read_value() raises: the exception leaves the loop through `finally`
ReadRaises ==
    /\ pc = "loop"
    /\ keep_reading
    /\ reads < MaxReads
    /\ reads' = reads + 1
    /\ pc' = "finally"
    /\ UNCHANGED <<keep_reading, device, connected, disconnects, raw_data,
                   calls, delivered, logged, mark, clock, fields>>
    /\ UNCHANGED genvars

\* the loop test finds _keep_reading false
LoopExit ==
    /\ pc = "loop"
    /\ ~keep_reading
    /\ pc' = "finally"
    /\ UNCHANGED <<keep_reading, device, connected, disconnects, reads, raw_data,
                   calls, delivered, logged, mark, clock, fields>>
    /\ UNCHANGED genvars

\* a for iteration: chunks yields a packet of the wrong length, `continue`
PacketDiscarded ==
    /\ pc = "for"
    /\ LET r == Resume(iterable, condition, it1, it2, sequence_started)
       IN  /\ ~r.returned
           /\ ~LengthOk(r.chunk)
           /\ Advance(r)
    /\ UNCHANGED readervars

\* a for iteration: the packet, the chunk just yielded, is decoded and the
\* callback returns
PacketDelivered ==
    /\ pc = "for"
    /\ LET r == Resume(iterable, condition, it1, it2, sequence_started)
       IN  /\ ~r.returned
           /\ LengthOk(r.chunk)
           /\ ~DecodeRaises(r.chunk)
           /\ Advance(r)
           /\ calls' = Append(calls, Decode(yielded'[Len(yielded')], clock))
           /\ delivered' = Append(delivered, Decode(yielded'[Len(yielded')], clock))
    /\ UNCHANGED <<pc, keep_reading, device, connected, disconnects, reads, raw_data,
                   logged, mark, clock, fields>>

\* as AfterExcept, but the exception leaves the for loop and the while loop
AfterExceptAbort == "finally"

\* where `except Exception: ... continue` resumes: the next for iteration
AfterExcept == "for"

\* a for iteration: decoding or the callback raises; `except Exception` logs
\* it and continues
PacketRaises ==
    /\ pc = "for"
    /\ LET r == Resume(iterable, condition, it1, it2, sequence_started)
       IN  /\ ~r.returned
           /\ LengthOk(r.chunk)
           /\ Advance(r)
           /\ calls' = IF DecodeRaises(r.chunk) THEN calls
                       ELSE Append(calls, Decode(yielded'[Len(yielded')], clock))
    /\ logged' = logged + 1
    /\ pc' = AfterExcept
    /\ UNCHANGED <<keep_reading, device, connected, disconnects, reads, raw_data,
                   delivered, mark, clock, fields>>

\* chunks returns: the for loop ends
PacketsDone ==
    /\ pc = "for"
    /\ LET r == Resume(iterable, condition, it1, it2, sequence_started)
       IN  /\ r.returned
           /\ Advance(r)
    /\ pc' = "sleep"
    /\ UNCHANGED <<keep_reading, device, connected, disconnects, reads, raw_data,
                   calls, delivered, logged, mark, clock, fields>>

\* time.sleep(DATA_READ_TIMEOUT_MS/1000), then back to the loop test
Sleep ==
    /\ pc = "sleep"
    /\ pc' = "loop"
    /\ clock' = clock + 1
    /\ UNCHANGED <<keep_reading, device, connected, disconnects, reads, raw_data,
                   calls, delivered, logged, mark, fields>>
    /\ UNCHANGED genvars

\* finally: disconnect when a device was found
Finally ==
    /\ pc = "finally"
    /\ disconnects' = IF device # "None" THEN disconnects + 1 ELSE disconnects
    /\ connected' = IF device # "None" THEN FALSE ELSE connected
    /\ pc' = "done"
    /\ UNCHANGED <<keep_reading, device, reads, raw_data,
                   calls, delivered, logged, mark, clock, fields>>
    /\ UNCHANGED genvars

Next ==
    \/ SignalHandler
    \/ Connect
    \/ FindCharacteristic
    \/ ReadValue
    \/ ReadEmpty
    \/ ReadRaises
    \/ LoopExit
    \/ PacketDiscarded
    \/ PacketDelivered
    \/ PacketRaises
    \/ PacketsDone
    \/ Sleep
    \/ Finally

Spec == Init /\ [][Next]_vars

\* The steps start_reading takes without input from the device or a signal.
ProgramStep ==
    \/ Connect
    \/ FindCharacteristic
    \/ LoopExit
    \/ PacketDiscarded
    \/ PacketDelivered
    \/ PacketRaises
    \/ PacketsDone
    \/ Sleep
    \/ Finally

\* as ReadValue, for a delivery of one or two frames
ReadFrames ==
    /\ pc = "loop"
    /\ keep_reading
    /\ reads < MaxReads
    /\ \E d \in PairDeliveries \cup EdgeDeliveries :
          /\ raw_data' = d
          /\ NewGenerator(d, SyncCondition)
    /\ reads' = reads + 1
    /\ mark' = Len(calls)
    /\ pc' = "for"
    /\ UNCHANGED <<keep_reading, device, connected, disconnects,
                   calls, delivered, logged, clock, fields>>

NextFair ==
    \/ SignalHandler
    \/ ReadFrames
    \/ ReadEmpty
    \/ ReadRaises
    \/ ProgramStep

\* start_reading runs on the main loop's thread and keeps running.
SpecFair == Init /\ [][NextFair]_vars /\ WF_vars(ProgramStep)

(***************************************************************************)
(* The decoder on built frames: start_reading at its loop with a connected *)
(* device reads one delivery holding a frame built from chosen field       *)
(* values.                                                                 *)
(***************************************************************************)
InitDecode ==
    /\ pc = "loop"
    /\ keep_reading = TRUE
    /\ device = "BerryMed"
    /\ connected = TRUE
    /\ disconnects = 0
    /\ reads = 0
    /\ raw_data = <<>>
    /\ calls = <<>>
    /\ delivered = <<>>
    /\ logged = 0
    /\ mark = 0
    /\ clock = 0
    /\ fields = "none"
    /\ NoGenerator

\* as ReadValue, for a delivery holding a built frame
ReadFrame ==
    /\ pc = "loop"
    /\ keep_reading
    /\ reads = 0
    /\ \E f \in FieldChoices : \E d \in FrameDeliveries(f) :
          /\ fields' = f
          /\ raw_data' = d
          /\ NewGenerator(d, SyncCondition)
    /\ reads' = reads + 1
    /\ mark' = Len(calls)
    /\ pc' = "for"
    /\ UNCHANGED <<keep_reading, device, connected, disconnects,
                   calls, delivered, logged, clock>>

NextDecode ==
    \/ ReadFrame
    \/ PacketDiscarded
    \/ PacketDelivered
    \/ PacketRaises
    \/ PacketsDone
    \/ Sleep

SpecDecode == InitDecode /\ [][NextDecode]_vars

(***************************************************************************)
(* A frame split across deliveries: the device sends a built frame and a   *)
(* second frame as one byte stream, which read_value() returns in two      *)
(* deliveries cut at any position.                                         *)
(***************************************************************************)
Stream(f) == BuildFrame(f) \o <<HiByte, LoByte, LoByte, LoByte, LoByte>>

\* The built frames of the stream: bytes 0, 2 and 3 vary over their choices.
SplitChoices ==
    { f \in FieldChoices :
        /\ f[2] = [sync_bit |-> 0, pleth |-> 127]
        /\ f[4].sync_bit = 0
        /\ f[5] = [sync_bit |-> 0, spo2 |-> 98] }

\* the first read_value(): the stream up to the cut
ReadHead ==
    /\ pc = "loop"
    /\ keep_reading
    /\ reads = 0
    /\ \E f \in SplitChoices : \E c \in 1..(Len(Stream(f)) - 1) :
          /\ fields' = f
          /\ raw_data' = SubSeq(Stream(f), 1, c)
          /\ NewGenerator(SubSeq(Stream(f), 1, c), SyncCondition)
    /\ reads' = reads + 1
    /\ mark' = Len(calls)
    /\ pc' = "for"
    /\ UNCHANGED <<keep_reading, device, connected, disconnects,
                   calls, delivered, logged, clock>>

\* the second read_value(): the rest of the stream
ReadRest ==
    /\ pc = "loop"
    /\ keep_reading
    /\ reads = 1
    /\ LET rest == SubSeq(Stream(fields), Len(raw_data) + 1, Len(Stream(fields)))
       IN  /\ raw_data' = rest
           /\ NewGenerator(rest, SyncCondition)
    /\ reads' = reads + 1
    /\ mark' = Len(calls)
    /\ pc' = "for"
    /\ UNCHANGED <<keep_reading, device, connected, disconnects,
                   calls, delivered, logged, clock, fields>>

NextSplit ==
    \/ ReadHead
    \/ ReadRest
    \/ PacketDiscarded
    \/ PacketDelivered
    \/ PacketRaises
    \/ PacketsDone
    \/ Sleep

SpecSplit == InitDecode /\ [][NextSplit]_vars

(***************************************************************************)
(* Properties of chunks                                                    *)
(***************************************************************************)
\* The bytes yielded so far, in the order yielded.
Emitted == Concat(yielded)

\* The index in `yielded` of the group holding the i-th item (1-based) of the
\* input, for an item already yielded.
RECURSIVE GroupOfFrom(_, _, _)
GroupOfFrom(i, k, before) ==
    IF i <= before + Len(yielded[k]) THEN k
    ELSE GroupOfFrom(i, k + 1, before + Len(yielded[k]))

GroupOf(i) == GroupOfFrom(i, 1, 0)

Markers(g) == {j \in 1..Len(g) : g[j] \in condition}

\* Reference split: the positions where a group starts are 1 and every later
\* position holding a marker; a piece runs up to the next start.
Starts(s, cond) == IF s = <<>> THEN {} ELSE {1} \cup {i \in 2..Len(s) : s[i] \in cond}

NthStart(s, cond, k) ==
    CHOOSE a \in Starts(s, cond) : Cardinality({b \in Starts(s, cond) : b < a}) = k - 1

CutPieces(s, cond) ==
    LET n == Cardinality(Starts(s, cond))
    IN  [k \in 1..n |->
            SubSeq(s, NthStart(s, cond, k),
                   IF k = n THEN Len(s) ELSE NthStart(s, cond, k + 1) - 1)]

\* C1: concatenating the groups yielded by chunks, in the order yielded, gives
\* exactly the input: at any time the groups yielded so far spell a prefix of
\* the input, and once the generator has returned they spell all of it.
C1_ConcatIsInput ==
    /\ Len(Emitted) <= Len(iterable)
    /\ Emitted = SubSeq(iterable, 1, Len(Emitted))
    /\ (gen = "returned" => Emitted = iterable)

C1_Witness ==
    ~(gen = "returned" /\ Len(yielded) >= 3 /\ Len(yielded[1]) >= 2 /\ Len(iterable) >= 5)

\* C2: every group yielded other than possibly the first and the last contains
\* exactly one byte satisfying the predicate, at offset 0 of the group.
C2_OneMarkerAtHead ==
    gen = "returned" =>
        \A k \in 2..(Len(yielded) - 1) : Markers(yielded[k]) = {1}

C2_Witness ==
    ~(gen = "returned" /\ Len(yielded) >= 4 /\ Len(yielded[2]) >= 2
        /\ yielded[1][1] \notin condition)

\* C3 as stated: a marker immediately followed by another marker keeps the
\* second marker in the group the first one opened.
C3_AdjacentMarkerStays ==
    \A i \in 1..(Len(Emitted) - 1) :
        (iterable[i] \in condition /\ iterable[i + 1] \in condition)
            => GroupOf(i) = GroupOf(i + 1)

\* C3 (amended): a marker immediately followed by another marker is yielded as
\* a group of its own, of length 1, and the second marker is at offset 0 of the
\* next group: the second marker closes the group the first one opened.
C3_AdjacentMarkerSplits ==
    \A i \in 1..(Len(Emitted) - 1) :
        (iterable[i] \in condition /\ iterable[i + 1] \in condition)
            => /\ yielded[GroupOf(i)] = <<iterable[i]>>
               /\ GroupOf(i + 1) = GroupOf(i) + 1
               /\ yielded[GroupOf(i + 1)][1] = iterable[i + 1]

C3_Witness ==
    ~(gen = "returned" /\ Len(iterable) >= 3
        /\ \E i \in 1..(Len(iterable) - 2) :
              /\ iterable[i] \in condition
              /\ iterable[i + 1] \in condition
              /\ iterable[i + 2] \notin condition)

\* C4: for a non-empty input the groups yielded are exactly the pieces obtained
\* by cutting the input immediately before each byte at index > 0 satisfying
\* the predicate; a marker at index 0 gives no empty leading group.
C4_GroupsAreCutPieces ==
    /\ \A k \in 1..Len(yielded) : yielded[k] # <<>>
    /\ Len(yielded) <= Len(CutPieces(iterable, condition))
    /\ yielded = SubSeq(CutPieces(iterable, condition), 1, Len(yielded))
    /\ (gen = "returned" => yielded = CutPieces(iterable, condition))

C4_Witness ==
    ~(/\ gen = "returned"
      /\ condition = {3}
      /\ \/ /\ iterable = <<2, 1, 3, 2, 1, 3, 2, 1, 3>>
            /\ yielded = << <<2, 1>>, <<3, 2, 1>>, <<3, 2, 1>>, <<3>> >>
         \/ /\ iterable = <<3, 2, 1, 3, 2>>
            /\ yielded = << <<3, 2, 1>>, <<3, 2>> >>)

(***************************************************************************)
(* Properties of start_reading                                             *)
(***************************************************************************)
IsFive(g) == Len(g) = 5

Fives(gs) == SelectSeq(gs, IsFive)

\* The samples passed to the callback since the current delivery was read.
ThisPass == SubSeq(calls, mark + 1, Len(calls))

InPass == pc \in {"for", "sleep"}

\* C5: a group whose length is not 5 is never passed to the callback: during
\* the pass over a delivery the callback has been invoked as many times as
\* groups of exactly 5 bytes have been yielded, so a group of any other length
\* (4 bytes, 6 bytes, a marker followed by more than 4 non-marker bytes) adds
\* no invocation.
C5_OnlyFiveByteGroups ==
    InPass => Len(calls) - mark = Len(Fives(yielded))

C5_Witness ==
    ~(/\ pc = "sleep"
      /\ Len(yielded) = 2
      /\ Len(yielded[1]) = 6
      /\ yielded[1][1] \in SyncCondition
      /\ Len(yielded[2]) = 5
      /\ Len(ThisPass) = 1)

\* The carry bit and the 7-bit pulse-rate part of a 5-byte group, read with
\* the schema of byte positions 2 and 3.
CarryOf(g) == Parse(PARSING_SCHEMA[2], <<g[3]>>).pr_last_bit

PrBitsOf(g) == Parse(PARSING_SCHEMA[3], <<g[4]>>).pr_bits

\* C6: the decoded pulse_rate of a 5-byte frame is (carry << 7) | v, carry
\* being pr_last_bit of byte 2 and v the 7-bit value of byte 3: 129 for carry 1
\* and v = 1, 5 for carry 0 and v = 5, and always within 0..255.
C6_PulseRate ==
    InPass =>
        /\ Len(ThisPass) = Len(Fives(yielded))
        /\ \A k \in 1..Len(ThisPass) :
              LET g == Fives(yielded)[k]
                  rate == ThisPass[k].pulse_rate
              IN  /\ rate = BitOr(ShiftLeft(CarryOf(g), 7), PrBitsOf(g))
                  /\ rate \in 0..255
                  /\ (CarryOf(g) = 1 /\ PrBitsOf(g) = 1 => rate = 129)
                  /\ (CarryOf(g) = 0 /\ PrBitsOf(g) = 5 => rate = 5)

C6_Witness ==
    ~(/\ pc = "sleep"
      /\ raw_data = BuildFrame(fields)
      /\ fields[3].pr_last_bit = 1
      /\ fields[4].pr_bits = 1
      /\ Len(calls) = 1
      /\ calls[1].pulse_rate = 129)

\* The sample has exactly the field values f.
HasValues(sample, f) ==
    /\ sample.signal_strength = f[1].signal_strength
    /\ sample.has_signal = (f[1].has_signal = 1)
    /\ sample.pleth = f[2].pleth
    /\ sample.bargraph = f[3].bargraph
    /\ sample.no_finger = (f[3].no_finger = 1)
    /\ sample.pulse_rate = f[3].pr_last_bit * 128 + f[4].pr_bits
    /\ sample.spo2 = f[5].spo2

\* C7: field round-trip: the sample passed to the callback for a 5-byte frame
\* built from chosen field values under the schema's layout has exactly those
\* values of signal_strength, has_signal, pleth, bargraph, no_finger,
\* pulse_rate and spo2; a delivery that is such a frame with no sync bit in
\* bytes 1..4 yields that one sample.
C7_FieldRoundTrip ==
    (InPass /\ fields # "none") =>
        /\ Len(ThisPass) = Len(Fives(yielded))
        /\ \A k \in 1..Len(ThisPass) :
              Fives(yielded)[k] = BuildFrame(fields) => HasValues(ThisPass[k], fields)
        /\ (/\ pc = "sleep"
            /\ raw_data = BuildFrame(fields)
            /\ \A i \in 2..5 : fields[i].sync_bit = 0)
              => (Len(calls) = 1 /\ HasValues(calls[1], fields))

C7_Witness ==
    ~(/\ pc = "sleep"
      /\ Len(calls) = 1
      /\ Fives(yielded) = << BuildFrame(fields) >>
      /\ fields[1].sync_bit = 1
      /\ calls[1].signal_strength = 9
      /\ calls[1].has_signal
      /\ calls[1].pleth = 127
      /\ calls[1].bargraph = 15
      /\ calls[1].no_finger
      /\ calls[1].pulse_rate = 133
      /\ calls[1].spo2 = 98)

\* C8: every sample passed to the callback has signal_strength and bargraph
\* in 0..15, pleth and spo2 in 0..127 and pulse_rate in 0..255: no sync bit of
\* bytes 1, 3 and 4 reaches pleth, pulse_rate or spo2.
C8_SampleRanges ==
    \A k \in 1..Len(calls) :
        /\ calls[k].signal_strength \in 0..15
        /\ calls[k].bargraph \in 0..15
        /\ calls[k].pleth \in 0..127
        /\ calls[k].spo2 \in 0..127
        /\ calls[k].pulse_rate \in 0..255

C8_Witness ==
    ~(/\ pc = "sleep"
      /\ raw_data = <<HiByte, HiByte, LoByte, LoByte, LoByte, LoByte>>
      /\ Len(calls) = mark + 1
      /\ calls[Len(calls)].pleth = LoByte
      /\ calls[Len(calls)].pulse_rate = 197)

\* C9: a failure for one 5-byte group never aborts the pass. The step that
\* logs the exception delivers no sample and leaves the reader in the for loop
\* with the same delivery and the stop flag untouched; at the end of every
\* pass the whole delivery has been framed and each of its 5-byte groups
\* decoded, and every group that did not fail has been delivered.
C9_FailureDoesNotAbort ==
    /\ [](pc = "sleep" =>
            /\ yielded = CutPieces(raw_data, SyncCondition)
            /\ Len(calls) - mark = Len(Fives(CutPieces(raw_data, SyncCondition)))
            /\ Len(delivered) = Len(calls) - logged)
    /\ [][logged' > logged =>
            /\ pc' = "for"
            /\ gen' = "suspended"
            /\ delivered' = delivered
            /\ UNCHANGED <<keep_reading, raw_data, iterable, reads, device, connected>>]_vars

C9_Witness ==
    ~(/\ pc = "sleep"
      /\ reads = 2
      /\ logged = 1
      /\ mark = 2
      /\ Len(calls) = 3
      /\ delivered = << calls[2], calls[3] >>)

\* C10: the callback is invoked exactly once per 5-byte group, in arrival
\* order: the samples of the current pass are the decoded 5-byte groups of the
\* delivery in group order, the samples of earlier deliveries precede them
\* (they carry an earlier timestamp), and a step only ever appends one sample.
C10_OncePerGroupInOrder ==
    /\ [](InPass =>
            /\ ThisPass = [k \in 1..Len(Fives(yielded)) |-> Decode(Fives(yielded)[k], clock)]
            /\ \A k \in 1..mark : calls[k].timestamp < clock)
    /\ [](pc = "sleep" =>
            ThisPass = [k \in 1..Len(Fives(CutPieces(raw_data, SyncCondition))) |->
                            Decode(Fives(CutPieces(raw_data, SyncCondition))[k], clock)])
    /\ [][/\ Len(calls') \in {Len(calls), Len(calls) + 1}
          /\ SubSeq(calls', 1, Len(calls)) = calls]_vars

C10_Witness ==
    ~(/\ pc = "sleep"
      /\ reads = 2
      /\ mark = 2
      /\ Len(calls) = 4
      /\ calls[1].signal_strength # calls[2].signal_strength
      /\ calls[3].signal_strength # calls[4].signal_strength
      /\ calls[2].timestamp < calls[3].timestamp)

\* C11 as stated: the sample record of a valid frame carries the
\* probe-unplugged, pulse-beep and pulse-research flags.
C11_SampleCarriesFlags ==
    \A k \in 1..Len(calls) :
        {"probe_unplugged", "pulse_beep", "pulse_research"} \subseteq DOMAIN calls[k]

\* C11 (amended): the sample record of a valid frame carries exactly signal
\* strength, has-signal, plethysmograph value, bargraph, no-finger, pulse rate,
\* SpO2 and timestamp; the probe-unplugged, pulse-beep and pulse-research flags
\* of bytes 0 and 2 are not part of it.
C11_SampleRecord ==
    \A k \in 1..Len(calls) :
        /\ DOMAIN calls[k] = HeartRateData
        /\ DOMAIN calls[k] \cap {"probe_unplugged", "pulse_beep", "pulse_research"} = {}

C11_Witness ==
    ~(/\ pc = "sleep"
      /\ Len(calls) = 1
      /\ Fives(yielded) = << BuildFrame(fields) >>
      /\ fields[1].pulse_beep = 1
      /\ fields[3].pulse_research = 1)

\* The samples a delivery yields when it is framed and decoded alone, and a
\* sequence of samples, both without their timestamps.
Alone(d) ==
    [k \in 1..Len(Fives(CutPieces(d, SyncCondition))) |->
        Decode(Fives(CutPieces(d, SyncCondition))[k], 0)]

Unstamped(ss) == [k \in 1..Len(ss) |-> [ss[k] EXCEPT !.timestamp = 0]]

\* The first delivery of the split stream.
HeadDelivery ==
    IF reads = 1 THEN raw_data
    ELSE SubSeq(Stream(fields), 1, Len(Stream(fields)) - Len(raw_data))

\* C12: each delivery is framed and decoded on its own: the generator of a pass
\* runs over the bytes of that delivery only, the samples delivered after two
\* deliveries are those the first yields alone followed by those the second
\* yields alone, and the bytes of a trailing incomplete group are not joined
\* with the next delivery (a frame split across the two yields no sample).
C12_DeliveriesFramedAlone ==
    /\ InPass =>
          /\ iterable = raw_data
          /\ Emitted = SubSeq(raw_data, 1, Len(Emitted))
    /\ (pc = "sleep" /\ reads = 1) => Unstamped(calls) = Alone(raw_data)
    /\ (pc = "sleep" /\ reads = 2) =>
          Unstamped(calls) = Alone(HeadDelivery) \o Alone(raw_data)

C12_Witness ==
    ~(/\ pc = "sleep"
      /\ reads = 2
      /\ fields[1].sync_bit = 1
      /\ \A i \in 2..5 : fields[i].sync_bit = 0
      /\ Len(HeadDelivery) = 7
      /\ Len(calls) = 1
      /\ yielded = << <<LoByte, LoByte, LoByte>> >>)

\* C13: the decoder does not require the sync bit in byte 0: when the first
\* group of a delivery has 5 bytes and no marker byte (the whole delivery, or
\* the bytes before its first marker), a sample read from those bytes is passed
\* to the callback, and the all-zero group gives signal_strength 0, has_signal
\* false, pleth 0, bargraph 0, no_finger false, pulse_rate 0 and spo2 0.
C13_NoSyncBitRequired ==
    pc = "sleep" =>
        LET first == CutPieces(raw_data, SyncCondition)[1]
        IN  (Len(first) = 5 /\ \A j \in 1..5 : first[j] \notin SyncCondition) =>
                /\ Len(ThisPass) >= 1
                /\ ThisPass[1].signal_strength = first[1] % 16
                /\ ThisPass[1].pleth = first[2]
                /\ ThisPass[1].bargraph = first[3] % 16
                /\ ThisPass[1].spo2 = first[5]
                /\ (first = <<0, 0, 0, 0, 0>> =>
                      ThisPass[1] = [signal_strength |-> 0, has_signal |-> FALSE, pleth |-> 0,
                                     bargraph |-> 0, no_finger |-> FALSE, pulse_rate |-> 0,
                                     spo2 |-> 0, timestamp |-> clock])

C13_Witness ==
    ~(/\ pc = "sleep"
      /\ raw_data = <<0, 0, 0, 0, 0, HiByte>>
      /\ Len(calls) = 1
      /\ ~calls[1].has_signal
      /\ calls[1].pulse_rate = 0)

\* C14: chunks terminates on every finite input and never yields an empty
\* group: the generator returns, after at most one resumption per input item
\* and one more; an empty input yields nothing; a non-empty input without a
\* marker yields one group, the whole input; and once the last byte has been
\* yielded the next resumption returns.
C14_Terminates ==
    /\ <>(gen = "returned")
    /\ [](/\ resumes <= Len(iterable) + 1
          /\ \A k \in 1..Len(yielded) : yielded[k] # <<>>
          /\ (iterable = <<>> => yielded = <<>>)
          /\ (gen = "returned" /\ iterable # <<>>
                /\ \A i \in 1..Len(iterable) : iterable[i] \notin condition)
              => yielded = << iterable >>)
    /\ [][(Emitted = iterable) => (gen' = "returned" /\ yielded' = yielded)]_vars

C14_Witness ==
    ~(/\ gen = "returned"
      /\ Len(iterable) = 3
      /\ \A i \in 1..Len(iterable) : iterable[i] \notin condition
      /\ yielded = << iterable >>
      /\ resumes = 2)

\* C15: once the stop flag is set, start_reading begins no new read: every
\* read follows a loop test that found the flag set to continue (also after an
\* empty delivery), the flag once cleared stays cleared, the delivery already
\* read is still framed and decoded to its end, and then the loop exits and
\* the run ends with the device disconnected exactly when one had been found
\* (the flag stays cleared, so no run stays forever with the flag cleared and
\* start_reading not ended).
C15_StopFlag ==
    /\ [][/\ (reads' # reads) => (pc = "loop" /\ keep_reading /\ reads' = reads + 1)
          /\ ~keep_reading => ~keep_reading']_vars
    /\ []((pc = "sleep" /\ ~keep_reading) =>
            /\ yielded = CutPieces(raw_data, SyncCondition)
            /\ Len(ThisPass) = Len(Fives(yielded)))
    /\ [](pc = "done" =>
            /\ disconnects = (IF device = "None" THEN 0 ELSE 1)
            /\ ~connected)
    /\ []<>(keep_reading \/ pc = "done")

C15_Witness ==
    ~(/\ pc = "done"
      /\ ~keep_reading
      /\ reads = 1
      /\ Len(yielded) = 2
      /\ Len(calls) = 2
      /\ device = "BerryMed"
      /\ disconnects = 1)

\* C16: starting_bit_lookup_condition is a function of the one byte alone: for
\* every byte value 0..255 the byte converts to a one-byte string, the parse
\* returns a boolean, and that boolean is the sync bit of the position-0
\* layout, true exactly for 128..255; every layout of the schema reads its
\* sync bit from that same bit, so whatever else the reader's state holds the
\* marker set given to chunks is 128..255, and a byte of a frame is a marker
\* exactly when the frame's fields carry a set sync bit at that position.
\* (The predicate reads no state, so the whole byte range is evaluated once,
\* before the first read; the marker set in use is compared in every state.)
MarkerIsSyncBit(b) ==
    /\ ToBytes(b) = <<b>>
    /\ starting_bit_lookup_condition(b) \in BOOLEAN
    /\ starting_bit_lookup_condition(b) = (b >= 128)
    /\ \A i \in DOMAIN PARSING_SCHEMA :
          Parse(PARSING_SCHEMA[i], ToBytes(b)).sync_bit = starting_bit_lookup_condition(b)

C16_MarkerIsSyncBit ==
    /\ reads = 0 => \A b \in Byte : MarkerIsSyncBit(b)
    /\ gen # "none" => condition = 128..255
    /\ fields # "none" =>
          \A i \in 1..SchemaLen :
              (BuildFrame(fields)[i] \in condition) = (fields[i].sync_bit = 1)

C16_Witness ==
    ~(/\ fields # "none"
      /\ fields[1].sync_bit = 1
      /\ fields[3].sync_bit = 1
      /\ raw_data = BuildFrame(fields)
      /\ Len(yielded) = 2
      /\ Len(yielded[1]) = 2
      /\ yielded[2][1] \in condition
      /\ yielded[2][1] = 128 + 64 + 32)

====
